---- MODULE Spec2Model ----
(***************************************************************************)
(* State-machine model of the comment-collection engine of                 *)
(* tiktok-comment-harvester: the feed loader                               *)
(* (TikTokCommentCrawler.load_all_comments), the challenge monitor         *)
(* (CaptchaMonitor), which polls the same browser session from threads of  *)
(* its own, the record extractor (TikTokCommentCrawler.extract_comments),  *)
(* the deduplication of its records (filter_duplicate_comments), the sinks *)
(* (save_to_csv, save_to_json, PostgresConnector.insert_comments) and the  *)
(* conversion of count strings (format_number).                            *)
(***************************************************************************)
EXTENDS Integers, Sequences, FiniteSets, TLC

\* ------------------------------------------------------------------ bounds
MaxFeed == 2        \* largest number of rendered comment items
MaxRounds == 24     \* cap of the history counter of loading rounds
MaxButtons == 6     \* largest number of rendered 'view replies' affordances
MaxThreads == 2     \* monitor threads that can exist at once
MaxNotify == 2      \* cap of the history counter of callbacks per interstitial

\* ------------------------------------------------------- program constants
max_attempts == 20  \* tiktok_crawler.py:820
ReplyBatch == 5     \* tiktok_crawler.py:853, view_more_replies[:5]

VARIABLES
    \* the call of load_all_comments
    call_site,            \* "main" (tiktok_crawler.py:1241) or "page" (crawler.py:455)
    max_comments,         \* argument max_comments
    unlimited,            \* keyword unlimited of the page's call
    \* load_all_comments: position and locals
    lpc,                  \* "call", "TypeError", "loop", "settle", "check", "done", "failed"
    comments_loaded,
    last_comments_count,
    attempts,
    \* the page
    rendered,             \* number of DivCommentItemWrapper elements in the DOM
    captcha,              \* "absent", "hidden" (in the DOM, not displayed), "shown"
    \* CaptchaMonitor fields
    is_running,
    is_paused,
    monitor_thread,       \* 0 is None, otherwise a thread
    captcha_solved,       \* the threading.Event's flag
    \* threads running _monitor_loop, and the callers of the monitor
    mpc,                  \* per thread: position in _monitor_loop, "dead" when not alive
    joining,              \* stop() is inside monitor_thread.join(timeout=1.0)
    wait_result,          \* wait_for_solution: "idle", "waiting", "true", "false"
    \* history variables
    rounds,               \* loading rounds begun so far
    unchanged,            \* rounds since the last round whose count differed from the one before
    opened,               \* reply affordances clicked in the current round
    set_by,               \* why captcha_solved is set: "none", "mark", "gone", "stop"
    wait_cause,           \* set_by as it was when wait_for_solution last returned
    detected,             \* a monitor saw the interstitial now displayed, and no mark_solved() since
    notified,             \* callback invocations since the interstitial last appeared
    \* filter_duplicate_comments and its caller
    batch,                \* the argument comments_data
    unique_comments,      \* the list returned
    refiltered,           \* the list returned for unique_comments as the argument
    dpc,                  \* "call", "filtered", "refiltered"
    \* the call of extract_comments
    extract_site,         \* "main" (tiktok_crawler.py:1244), "page" (crawler.py:467), "multi" (crawler.py:753)
    include_replies,      \* argument include_replies
    dom,                  \* the top-level items of the comment list, in document order
    \* extract_comments: position and locals
    xpc,                  \* "call", "TypeError", "loop", "done"
    comment_elements,     \* the elements found at line 899
    cur,                  \* the loop index i, counted from 1
    comments_data,        \* the result list
    \* history variables of the extraction
    origin,               \* for each record of comments_data, the element it was read from
    failed,               \* positions of comment_elements whose extraction raised
    \* the sinks
    records,              \* the list comments_data handed to the sinks
    format,               \* the file format of the run: "csv" or "json"
    video_id,             \* argument video_id of the last insert_comments
    table,                \* the rows of the table comments, in the order of comment_id
    insert_result,        \* "none", or what insert_comments returned: "true", "false"
    inserted_count,
    skipped_count,
    csv_result,           \* "none", or what save_to_csv returned
    csv_rows,             \* data rows of the CSV file
    json_result,          \* "none", or what save_to_json returned
    json_saved,           \* records in the JSON file
    \* history variables of the sinks
    writes,               \* calls of insert_comments so far
    csv_error,            \* why save_to_csv returned False: "empty", "IOError", "ValueError"
    \* number parsing
    num_str,              \* the count string, a sequence of characters
    formatted,            \* outcome of format_number(num_str)
    likes                 \* outcome of the likes conversion of insert_comments

vars == << call_site, max_comments, unlimited, lpc, comments_loaded,
           last_comments_count, attempts, rendered, captcha, is_running,
           is_paused, monitor_thread, captcha_solved, mpc, joining,
           wait_result, rounds, unchanged, opened, set_by, wait_cause, detected,
           notified, batch, unique_comments, refiltered, dpc, extract_site,
           include_replies, dom, xpc, comment_elements, cur, comments_data,
           origin, failed, records, format, video_id, table, insert_result,
           inserted_count, skipped_count, csv_result, csv_rows, json_result,
           json_saved, writes, csv_error, num_str, formatted, likes >>

loaderVars == << call_site, max_comments, unlimited, lpc, comments_loaded,
                 last_comments_count, attempts, rounds, unchanged, opened >>

monitorVars == << is_running, is_paused, monitor_thread, captcha_solved, mpc,
                  joining, wait_result, set_by, wait_cause, detected, notified >>

dedupVars == << batch, unique_comments, refiltered, dpc >>

extractVars == << extract_site, include_replies, dom, xpc, comment_elements,
                  cur, comments_data, origin, failed >>

sinkVars == << records, format, video_id, table, insert_result, inserted_count,
               skipped_count, csv_result, csv_rows, json_result, json_saved,
               writes, csv_error >>

numberVars == << num_str, formatted, likes >>

outputVars == << sinkVars, numberVars >>

harvestVars == << dedupVars, extractVars, outputVars >>

Threads == 1..MaxThreads

Min(a, b) == IF a <= b THEN a ELSE b

\* ------------------------------------------------------------ feed loader

\* The parameters of load_all_comments besides self.
LoadParams == {"max_comments", "scroll_pause_time", "progress_callback"}

\* The keywords each call site passes.
CallKeywords(site) ==
    IF site = "main"
    THEN {"max_comments"}
    ELSE {"max_comments", "scroll_pause_time", "unlimited", "max_idle_time",
          "include_replies", "progress_callback"}

\* Python binds the keywords to the parameters before the body runs.
Accepts(site) == CallKeywords(site) \subseteq LoadParams

\* while comments_loaded < max_comments and attempts < max_attempts
\* (the variant lets a round begin with the count already at max_comments)
LoopCondOffByOne(loaded, maxc, att) == loaded <= maxc /\ att < max_attempts
LoopCond(loaded, maxc, att) == loaded < maxc /\ att < max_attempts

\* if comments_loaded == last_comments_count: attempts += 1  else: attempts = 0
\* (the variant forgets the increment)
NextAttemptsNoCount(loaded, last, att) == IF loaded = last THEN att ELSE 0
NextAttempts(loaded, last, att) == IF loaded = last THEN att + 1 ELSE 0

\* the two break tests that end a round
BreakCond(loaded, maxc, att) == loaded >= maxc \/ att >= max_attempts

\* The call: argument binding, then the wait for the comment list container.
Call ==
    /\ lpc = "call"
    /\ IF ~Accepts(call_site)
       THEN lpc' = "TypeError"
       ELSE \E found \in BOOLEAN : lpc' = IF found THEN "loop" ELSE "failed"
    /\ UNCHANGED << call_site, max_comments, unlimited, comments_loaded,
                    last_comments_count, attempts, rounds, unchanged, opened >>
    /\ UNCHANGED << rendered, captcha >>
    /\ UNCHANGED monitorVars
    /\ UNCHANGED harvestVars

\* One round up to time.sleep(scroll_pause_time): count, update the counters,
\* scroll the last item into view and the container to its end.
RoundScroll ==
    /\ lpc = "loop"
    /\ LoopCond(comments_loaded, max_comments, attempts)
    /\ rounds < MaxRounds
    /\ \E raised \in BOOLEAN :
         IF raised
         THEN /\ lpc' = "failed"
              /\ UNCHANGED << comments_loaded, last_comments_count, attempts,
                              rounds, unchanged >>
         ELSE /\ lpc' = "settle"
              /\ comments_loaded' = rendered
              /\ attempts' = NextAttempts(rendered, last_comments_count, attempts)
              /\ last_comments_count' = rendered
              /\ rounds' = rounds + 1
              /\ unchanged' = IF rendered = last_comments_count
                              THEN unchanged + 1 ELSE 0
    /\ opened' = 0
    /\ UNCHANGED << call_site, max_comments, unlimited >>
    /\ UNCHANGED << rendered, captcha >>
    /\ UNCHANGED monitorVars
    /\ UNCHANGED harvestVars

\* After the pause: click the first five 'view replies' affordances; a click
\* that raises is skipped, a failing query opens none.
RoundReplies ==
    /\ lpc = "settle"
    /\ \E buttons \in 0..MaxButtons :
         \E clicked \in 0..Min(ReplyBatch, buttons) : opened' = clicked
    /\ lpc' = "check"
    /\ UNCHANGED << call_site, max_comments, unlimited, comments_loaded,
                    last_comments_count, attempts, rounds, unchanged >>
    /\ UNCHANGED << rendered, captcha >>
    /\ UNCHANGED monitorVars
    /\ UNCHANGED harvestVars

\* The two break tests at the end of the round.
RoundCheck ==
    /\ lpc = "check"
    /\ lpc' = IF BreakCond(comments_loaded, max_comments, attempts)
              THEN "done" ELSE "loop"
    /\ opened' = 0
    /\ UNCHANGED << call_site, max_comments, unlimited, comments_loaded,
                    last_comments_count, attempts, rounds, unchanged >>
    /\ UNCHANGED << rendered, captcha >>
    /\ UNCHANGED monitorVars
    /\ UNCHANGED harvestVars

\* The while condition is false: the loop is left and True is returned.
LoopExit ==
    /\ lpc = "loop"
    /\ ~LoopCond(comments_loaded, max_comments, attempts)
    /\ lpc' = "done"
    /\ UNCHANGED << call_site, max_comments, unlimited, comments_loaded,
                    last_comments_count, attempts, rounds, unchanged, opened >>
    /\ UNCHANGED << rendered, captcha >>
    /\ UNCHANGED monitorVars
    /\ UNCHANGED harvestVars

\* The page renders more items, or fewer (the list is re-rendered).
FeedChange ==
    /\ \E n \in 0..MaxFeed : n # rendered /\ rendered' = n
    /\ UNCHANGED captcha
    /\ UNCHANGED loaderVars
    /\ UNCHANGED monitorVars
    /\ UNCHANGED harvestVars

InitLoader ==
    /\ call_site \in {"main", "page"}
    /\ max_comments \in 0..(MaxFeed + 1)
    /\ unlimited \in IF call_site = "page" THEN BOOLEAN ELSE {FALSE}
    /\ lpc = "call"
    /\ comments_loaded = 0
    /\ last_comments_count = 0
    /\ attempts = 0
    /\ rounds = 0
    /\ unchanged = 0
    /\ opened = 0
    /\ rendered \in 0..MaxFeed

InitMonitor ==
    /\ captcha = "absent"
    /\ is_running = FALSE
    /\ is_paused = FALSE
    /\ monitor_thread = 0
    /\ captcha_solved = FALSE
    /\ mpc = [t \in Threads |-> "dead"]
    /\ joining = FALSE
    /\ wait_result = "idle"
    /\ set_by = "none"
    /\ wait_cause = "none"
    /\ detected = FALSE
    /\ notified = 0

\* ------------------------------------------------------- challenge monitor

Alive(t) == mpc[t] # "dead"

\* start(): nothing when the thread monitor_thread names is alive; otherwise
\* the flags are reset and a new thread is started.
StartGuard == IF monitor_thread = 0 THEN TRUE ELSE ~Alive(monitor_thread)

start ==
    /\ ~joining
    /\ StartGuard
    /\ \E t \in Threads :
         /\ ~Alive(t)
         /\ mpc' = [mpc EXCEPT ![t] = "loop"]
         /\ monitor_thread' = t
    /\ is_running' = TRUE
    /\ is_paused' = FALSE
    /\ captcha_solved' = FALSE
    /\ set_by' = "none"
    /\ UNCHANGED << joining, wait_result, wait_cause, detected, notified >>
    /\ UNCHANGED << rendered, captcha >>
    /\ UNCHANGED loaderVars
    /\ UNCHANGED harvestVars

\* stop() up to the join: is_running = False, then join(timeout=1.0) when a
\* thread is recorded.
stop ==
    /\ ~joining
    /\ is_running' = FALSE
    /\ joining' = TRUE
    /\ UNCHANGED << is_paused, monitor_thread, captcha_solved, mpc, wait_result,
                    wait_cause, set_by, detected, notified >>
    /\ UNCHANGED << rendered, captcha >>
    /\ UNCHANGED loaderVars
    /\ UNCHANGED harvestVars

\* join() returns, because the thread ended or because the second elapsed
\* (the thread sleeps a second per tick and may still be alive), and stop()
\* forgets the thread.
stop_return ==
    /\ joining
    /\ \E timed_out \in BOOLEAN : timed_out \/ StartGuard
    /\ monitor_thread' = 0
    /\ joining' = FALSE
    /\ UNCHANGED << is_running, is_paused, captcha_solved, mpc, wait_result,
                    wait_cause, set_by, detected, notified >>
    /\ UNCHANGED << rendered, captcha >>
    /\ UNCHANGED loaderVars
    /\ UNCHANGED harvestVars

pause ==
    /\ ~joining
    /\ ~is_paused
    /\ is_paused' = TRUE
    /\ UNCHANGED << is_running, monitor_thread, captcha_solved, mpc, joining,
                    wait_result, wait_cause, set_by, detected, notified >>
    /\ UNCHANGED << rendered, captcha >>
    /\ UNCHANGED loaderVars
    /\ UNCHANGED harvestVars

resume ==
    /\ ~joining
    /\ is_paused
    /\ is_paused' = FALSE
    /\ UNCHANGED << is_running, monitor_thread, captcha_solved, mpc, joining,
                    wait_result, wait_cause, set_by, detected, notified >>
    /\ UNCHANGED << rendered, captcha >>
    /\ UNCHANGED loaderVars
    /\ UNCHANGED harvestVars

\* mark_solved(): captcha_solved.set(), nothing else.
mark_solved ==
    /\ captcha_solved' = TRUE
    /\ set_by' = "mark"
    /\ detected' = FALSE
    /\ UNCHANGED << is_running, is_paused, monitor_thread, mpc, joining,
                    wait_result, wait_cause, notified >>
    /\ UNCHANGED << rendered, captcha >>
    /\ UNCHANGED loaderVars
    /\ UNCHANGED harvestVars

\* wait_for_solution(timeout): captcha_solved.wait(timeout) begins.
wait_for_solution ==
    /\ wait_result # "waiting"
    /\ wait_result' = "waiting"
    /\ UNCHANGED << is_running, is_paused, monitor_thread, captcha_solved, mpc,
                    joining, set_by, wait_cause, detected, notified >>
    /\ UNCHANGED << rendered, captcha >>
    /\ UNCHANGED loaderVars
    /\ UNCHANGED harvestVars

\* Event.wait returns True once the flag is set, False when the timeout
\* elapses with the flag clear.
wait_return ==
    /\ wait_result = "waiting"
    /\ wait_result' = IF captcha_solved THEN "true" ELSE "false"
    /\ wait_cause' = set_by
    /\ UNCHANGED << is_running, is_paused, monitor_thread, captcha_solved, mpc,
                    joining, set_by, detected, notified >>
    /\ UNCHANGED << rendered, captcha >>
    /\ UNCHANGED loaderVars
    /\ UNCHANGED harvestVars

\* while self.is_running
MonLoop(t) ==
    /\ mpc[t] = "loop"
    /\ mpc' = [mpc EXCEPT ![t] = IF is_running THEN "poll" ELSE "dead"]
    /\ UNCHANGED << is_running, is_paused, monitor_thread, captcha_solved,
                    joining, wait_result, wait_cause, set_by, detected, notified >>
    /\ UNCHANGED << rendered, captcha >>
    /\ UNCHANGED loaderVars
    /\ UNCHANGED harvestVars

\* One tick of the detection poll: skipped while is_paused; find_element and
\* is_displayed; a displayed interstitial sets is_paused and clears the event.
\* NoSuchElementException and any other exception end the tick.
MonPoll(t) ==
    /\ mpc[t] = "poll"
    /\ \E raised \in BOOLEAN :
         IF ~is_paused /\ ~raised /\ captcha = "shown"
         THEN /\ is_paused' = TRUE
              /\ captcha_solved' = FALSE
              /\ set_by' = "none"
              /\ detected' = TRUE
              /\ mpc' = [mpc EXCEPT ![t] = "callback"]
         ELSE /\ mpc' = [mpc EXCEPT ![t] = "sleep"]
              /\ UNCHANGED << is_paused, captcha_solved, set_by, detected >>
    /\ UNCHANGED << is_running, monitor_thread, joining, wait_result, wait_cause,
                    notified >>
    /\ UNCHANGED << rendered, captcha >>
    /\ UNCHANGED loaderVars
    /\ UNCHANGED harvestVars

\* self.callback(captcha_element); an exception it raises is caught by the
\* handlers of the tick, past the lines that end the episode.
MonCallback(t) ==
    /\ mpc[t] = "callback"
    /\ notified < MaxNotify
    /\ notified' = notified + 1
    /\ \E raised \in BOOLEAN :
         mpc' = [mpc EXCEPT ![t] = IF raised THEN "sleep" ELSE "waittest"]
    /\ UNCHANGED << is_running, is_paused, monitor_thread, captcha_solved,
                    joining, wait_result, wait_cause, set_by, detected >>
    /\ UNCHANGED << rendered, captcha >>
    /\ UNCHANGED loaderVars
    /\ UNCHANGED harvestVars

\* while self.is_running and captcha_element.is_displayed(): is_displayed
\* raises on an element that left the DOM, and the exception leaves the tick.
MonWaitTest(t) ==
    /\ mpc[t] = "waittest"
    /\ \E raised \in BOOLEAN :
         mpc' = [mpc EXCEPT ![t] =
                   IF ~is_running THEN "stopped"
                   ELSE IF raised \/ captcha = "absent" THEN "sleep"
                   ELSE IF captcha = "shown" THEN "waitpoll"
                   ELSE "solved"]
    /\ UNCHANGED << is_running, is_paused, monitor_thread, captcha_solved,
                    joining, wait_result, wait_cause, set_by, detected, notified >>
    /\ UNCHANGED << rendered, captcha >>
    /\ UNCHANGED loaderVars
    /\ UNCHANGED harvestVars

\* time.sleep(1.0); find_element again: NoSuchElementException breaks out of
\* the wait loop, any other exception leaves the tick.
MonWaitPoll(t) ==
    /\ mpc[t] = "waitpoll"
    /\ \E raised \in BOOLEAN :
         mpc' = [mpc EXCEPT ![t] =
                   IF raised THEN "sleep"
                   ELSE IF captcha = "absent" THEN "solved"
                   ELSE "waittest"]
    /\ UNCHANGED << is_running, is_paused, monitor_thread, captcha_solved,
                    joining, wait_result, wait_cause, set_by, detected, notified >>
    /\ UNCHANGED << rendered, captcha >>
    /\ UNCHANGED loaderVars
    /\ UNCHANGED harvestVars

\* After the wait loop: captcha_solved.set(); is_paused = False.
MonSolved(t) ==
    /\ mpc[t] \in {"solved", "stopped"}
    /\ captcha_solved' = TRUE
    /\ set_by' = IF mpc[t] = "solved" THEN "gone"
                 ELSE IF captcha_solved THEN set_by ELSE "stop"
    /\ is_paused' = FALSE
    /\ mpc' = [mpc EXCEPT ![t] = "sleep"]
    /\ UNCHANGED << is_running, monitor_thread, joining, wait_result, wait_cause,
                    detected, notified >>
    /\ UNCHANGED << rendered, captcha >>
    /\ UNCHANGED loaderVars
    /\ UNCHANGED harvestVars

\* time.sleep(check_interval)
MonSleep(t) ==
    /\ mpc[t] = "sleep"
    /\ mpc' = [mpc EXCEPT ![t] = "loop"]
    /\ UNCHANGED << is_running, is_paused, monitor_thread, captcha_solved,
                    joining, wait_result, wait_cause, set_by, detected, notified >>
    /\ UNCHANGED << rendered, captcha >>
    /\ UNCHANGED loaderVars
    /\ UNCHANGED harvestVars

\* The page shows the interstitial, hides it or removes it from the DOM.
CaptchaChange ==
    /\ \E c \in {"absent", "hidden", "shown"} :
         /\ c # captcha
         /\ captcha' = c
         /\ notified' = IF c = "shown" THEN 0 ELSE notified
         /\ detected' = IF captcha = "shown" THEN FALSE ELSE detected
    /\ UNCHANGED rendered
    /\ UNCHANGED << is_running, is_paused, monitor_thread, captcha_solved, mpc,
                    joining, wait_result, wait_cause, set_by >>
    /\ UNCHANGED loaderVars
    /\ UNCHANGED harvestVars

MonStep ==
    \E t \in Threads :
        \/ MonLoop(t) \/ MonPoll(t) \/ MonCallback(t) \/ MonWaitTest(t)
        \/ MonWaitPoll(t) \/ MonSolved(t) \/ MonSleep(t)

\* ------------------------------------------------ filter_duplicate_comments

MaxBatch == 3       \* longest list handed to filter_duplicate_comments

\* Authors, texts and like counts of the records of a batch.  An author's
\* name and a text may hold any character, the colon included.
Usernames == {"x", "x:y"}
CommentTexts == {"z", "y:z"}
LikeCounts == {"1", "2"}

CommentRecords ==
    [username : Usernames, comment_text : CommentTexts, likes : LikeCounts]

Batches == UNION {[1..n -> CommentRecords] : n \in 0..MaxBatch}

\* comment_key = f"{comment.get('username', '')}:{comment.get('comment_text', '')}"
comment_key(comment) == comment.username \o ":" \o comment.comment_text

\* if comment_key not in processed_comments
\* (the variant takes every key for a new one)
IsProcessedNever(key, processed_comments) == FALSE
IsProcessed(key, processed_comments) == key \in processed_comments

\* unique_comments.append(comment)
\* (the variant puts the record in front)
KeepInFront(unique, comment) == << comment >> \o unique
Keep(unique, comment) == Append(unique, comment)

\* for comment in comments_data: ...
RECURSIVE FilterFrom(_, _, _)
FilterFrom(rest, processed_comments, unique) ==
    IF rest = << >>
    THEN unique
    ELSE LET comment == Head(rest)
             key == comment_key(comment)
         IN  IF ~IsProcessed(key, processed_comments)
             THEN FilterFrom(Tail(rest), processed_comments \cup {key},
                             Keep(unique, comment))
             ELSE FilterFrom(Tail(rest), processed_comments, unique)

filter_duplicate_comments(data) == FilterFrom(data, {}, << >>)

\* comments_data = filter_duplicate_comments(comments_data)
Filter ==
    /\ dpc = "call"
    /\ unique_comments' = filter_duplicate_comments(batch)
    /\ dpc' = "filtered"
    /\ UNCHANGED << batch, refiltered >>
    /\ UNCHANGED << extractVars, outputVars >>
    /\ UNCHANGED << rendered, captcha >>
    /\ UNCHANGED loaderVars
    /\ UNCHANGED monitorVars

\* The list returned is handed to filter_duplicate_comments once more.
FilterAgain ==
    /\ dpc = "filtered"
    /\ refiltered' = filter_duplicate_comments(unique_comments)
    /\ dpc' = "refiltered"
    /\ UNCHANGED << batch, unique_comments >>
    /\ UNCHANGED << extractVars, outputVars >>
    /\ UNCHANGED << rendered, captcha >>
    /\ UNCHANGED loaderVars
    /\ UNCHANGED monitorVars

InitIdleDedup ==
    /\ batch = << >>
    /\ unique_comments = << >>
    /\ refiltered = << >>
    /\ dpc = "call"

\* --------------------------------------------------------- extract_comments

MaxItems == 2       \* most top-level items of the comment list
MaxFailures == 1    \* most steps of one call that fail on an exception

DefaultMaxComments == 100   \* tiktok_crawler.py:884

\* The parameters of extract_comments besides self.
ExtractParams == {"max_comments", "include_replies"}

\* The keywords each call site passes.
ExtractKeywords(site) ==
    CASE site = "main" -> {"max_comments"}
      [] site = "page" -> {"max_comments", "include_replies", "skip_unknown"}
      [] OTHER -> {"max_comments", "include_replies"}

AcceptsExtract(site) == ExtractKeywords(site) \subseteq ExtractParams

\* The elements a container can hold: author, text, like count and time.
Fields == {"username", "comment_text", "likes", "comment_time"}

\* A top-level item holds all of them, lacks the author, lacks the text, or
\* holds none.  A reply holds all of them or lacks its text.
Shapes == {Fields, Fields \ {"username"}, Fields \ {"comment_text"}, {}}
WholeReply == Fields
BrokenReply == Fields \ {"comment_text"}
ReplyLayouts == {<< >>, << WholeReply, WholeReply >>, << BrokenReply, WholeReply >>}

\* An item: the elements it holds, its replies in document order, and whether
\* the replies are rendered (inside the item's container) or still behind the
\* 'view replies' affordance, whose label shows their number.
Items ==
    {it \in [present : Shapes, replies : ReplyLayouts, expanded : BOOLEAN] :
        it.replies = << >> => ~it.expanded}

Doms == UNION {[1..n -> Items] : n \in 0..MaxItems}

\* The texts the elements show.
AuthorNames == << "u1", "u2", "u3", "u4" >>
ItemTexts == << "t1", "t2", "t3", "t4" >>
ReplyAuthorNames == << "r1", "r2" >>
ReplyTexts == << "s1", "s2" >>

\* line 899: every DivCommentItemWrapper of the document, in document order; the
\* rendered replies are DivCommentItemWrapper elements inside their item's
\* container (line 963).
ElementsOf(k, item) ==
    << [item |-> k, reply |-> 0] >> \o
    (IF item.expanded
     THEN [j \in 1..Len(item.replies) |-> [item |-> k, reply |-> j]]
     ELSE << >>)

RECURSIVE FindCommentItems(_, _)
FindCommentItems(d, k) ==
    IF k > Len(d) THEN << >>
    ELSE ElementsOf(k, d[k]) \o FindCommentItems(d, k + 1)

\* line 902
comments_to_process == Min(Len(comment_elements), max_comments)

\* Whether the lookup of a field is inside a handler of
\* NoSuchElementException: all four at the top level (lines 909-934), the
\* like count and the time of a reply (lines 984-993), not a reply's author
\* and text (lines 978, 981).
\* (the variant treats the top level as the replies are treated)
HandledAsReplies(level, field) == field \in {"likes", "comment_time"}
Handled(level, field) == level = 1 \/ field \in {"likes", "comment_time"}

\* The lookups of the like count and the time go by class name through all
\* descendants: in an item that lacks the element they find the one of its
\* first rendered reply.
NestedFound(item, field) ==
    /\ item.expanded
    /\ \E j \in 1..Len(item.replies) : field \in item.replies[j]


\* The container an element of comment_elements is: an item, or a rendered
\* reply, which holds no element of the first level (comment-username-1,
\* comment-level-1), no reply of its own and no 'view replies' label.
AsContainer(d, el) ==
    IF el.reply = 0 THEN d[el.item]
    ELSE [present |-> d[el.item].replies[el.reply] \ {"username", "comment_text"},
          replies |-> << >>, expanded |-> FALSE]

\* lines 908-954: the record of one container, each lookup with its default.
\* The number of the 'view replies' label is kept as a number.
comment_data(d, el) ==
    LET c == AsContainer(d, el) IN
    [username |-> IF "username" \in c.present
                  THEN AuthorNames[el.item] ELSE "Unknown",
     comment_text |-> IF "comment_text" \in c.present
                      THEN ItemTexts[el.item] ELSE "",
     likes |-> IF "likes" \in c.present
               THEN (IF el.reply = 0 THEN "5" ELSE "1")
               ELSE IF NestedFound(c, "likes") THEN "1" ELSE "0",
     comment_time |-> IF "comment_time" \in c.present
                      THEN (IF el.reply = 0 THEN "2d" ELSE "1d")
                      ELSE IF NestedFound(c, "comment_time") THEN "1d"
                      ELSE "Unknown",
     replies_count |-> Len(c.replies)]

\* line 997: "parent_comment_username": username
\* (the variant takes the reply's own author)
ParentIsReplyAuthor(username, reply_username) == reply_username
ParentOf(username, reply_username) == username

\* lines 976-1004: the record of reply j, read under the item whose author
\* was extracted as username.
reply_data(j, shape, username) ==
    [parent_comment_username |-> ParentOf(username, ReplyAuthorNames[j]),
     username |-> ReplyAuthorNames[j],
     comment_text |-> ReplyTexts[j],
     likes |-> IF "likes" \in shape THEN "1" ELSE "0",
     comment_time |-> IF "comment_time" \in shape THEN "1d" ELSE "Unknown",
     is_reply |-> TRUE]

\* lines 975-1011: the replies whose extraction does not raise, in order.
KeptReplies(c) ==
    SelectSeq([j \in 1..Len(c.replies) |-> j],
              LAMBDA j : \A f \in Fields \ c.replies[j] : Handled(2, f))

\* lines 1016-1018: the handler of an item's exception goes on with the next
\* index.
\* (the variant leaves the loop)
LeaveLoop(p, n) == n + 1
AfterFailure(p, n) == p + 1

\* The call: argument binding, then find_elements (line 899); an exception
\* there returns the empty list (lines 1023-1025).
ExtractCall ==
    /\ xpc = "call"
    /\ IF ~AcceptsExtract(extract_site)
       THEN /\ xpc' = "TypeError"
            /\ UNCHANGED << comment_elements, cur, failed >>
       ELSE \E raised \in BOOLEAN :
              IF raised
              THEN /\ xpc' = "done"
                   /\ failed' = {[at |-> 0, part |-> "call"]}
                   /\ UNCHANGED << comment_elements, cur >>
              ELSE /\ xpc' = "loop"
                   /\ comment_elements' = FindCommentItems(dom, 1)
                   /\ cur' = 1
                   /\ UNCHANGED failed
    /\ UNCHANGED << extract_site, include_replies, dom, comments_data, origin >>
    /\ UNCHANGED << dedupVars, outputVars >>
    /\ UNCHANGED << rendered, captcha >>
    /\ UNCHANGED loaderVars
    /\ UNCHANGED monitorVars

\* One pass of the loop body (lines 905-1018) for comment_elements[cur].
\* "raise" is an exception other than NoSuchElementException before the
\* record is appended; "replies_raise" is one in the reply section outside
\* the loop over the replies (or a click that renders no reply in time).
ExtractItem ==
    /\ xpc = "loop"
    /\ cur <= comments_to_process
    /\ LET el == comment_elements[cur]
           c == AsContainer(dom, el)
           rec == comment_data(dom, el)
           unguarded == \E f \in Fields \ c.present : ~Handled(1, f)
           kept == KeptReplies(c)
       IN  \E outcome \in {"ok", "raise", "replies_raise"} :
             /\ outcome # "ok" => Cardinality(failed) < MaxFailures
             /\ outcome = "replies_raise" =>
                    include_replies /\ rec.replies_count > 0
             /\ IF outcome = "raise" \/ unguarded
                THEN /\ cur' = AfterFailure(cur, comments_to_process)
                     /\ failed' = IF outcome = "raise"
                                  THEN failed \cup {[at |-> cur, part |-> "item"]}
                                  ELSE failed
                     /\ UNCHANGED << comments_data, origin >>
                ELSE /\ cur' = cur + 1
                     /\ IF include_replies /\ rec.replies_count > 0 /\ outcome = "ok"
                        THEN /\ comments_data' =
                                  Append(comments_data, rec) \o
                                  [n \in 1..Len(kept) |->
                                      reply_data(kept[n], c.replies[kept[n]],
                                                 rec.username)]
                             /\ origin' =
                                  Append(origin, [at |-> cur, item |-> el.item,
                                                  reply |-> el.reply, via |-> "item"]) \o
                                  [n \in 1..Len(kept) |->
                                      [at |-> cur, item |-> el.item,
                                       reply |-> kept[n], via |-> "reply"]]
                        ELSE /\ comments_data' = Append(comments_data, rec)
                             /\ origin' =
                                  Append(origin, [at |-> cur, item |-> el.item,
                                                  reply |-> el.reply, via |-> "item"])
                     /\ failed' = IF outcome = "replies_raise"
                                  THEN failed \cup {[at |-> cur, part |-> "replies"]}
                                  ELSE failed
    /\ UNCHANGED << extract_site, include_replies, dom, xpc, comment_elements >>
    /\ UNCHANGED << dedupVars, outputVars >>
    /\ UNCHANGED << rendered, captcha >>
    /\ UNCHANGED loaderVars
    /\ UNCHANGED monitorVars

\* The range is exhausted: the list is returned (line 1021).
ExtractReturn ==
    /\ xpc = "loop"
    /\ cur > comments_to_process
    /\ xpc' = "done"
    /\ UNCHANGED << extract_site, include_replies, dom, comment_elements, cur,
                    comments_data, origin, failed >>
    /\ UNCHANGED << dedupVars, outputVars >>
    /\ UNCHANGED << rendered, captcha >>
    /\ UNCHANGED loaderVars
    /\ UNCHANGED monitorVars

InitIdleExtract ==
    /\ extract_site = "main"
    /\ include_replies = TRUE
    /\ dom = << >>
    /\ xpc = "call"
    /\ comment_elements = << >>
    /\ cur = 1
    /\ comments_data = << >>
    /\ origin = << >>
    /\ failed = {}

\* ------------------------------------------------------------------- sinks

MaxRecords == 3     \* longest list handed to the sinks
MaxWrites == 2      \* most calls of insert_comments in one run

SinkUsers == {"u1", "u2"}
SinkTexts == {"a", "b"}
SinkItemTexts == {"a"}
VideoIds == {"v1", "v2"}

\* The records extract_comments builds (lines 946-953 and 996-1004).
TopRecords ==
    [username : SinkUsers, comment_text : SinkItemTexts, likes : {"0"},
     comment_time : {"1d"}, replies_count : {"0"}, crawled_at : {"now"}]

ReplyRecords ==
    [parent_comment_username : SinkUsers, username : SinkUsers,
     comment_text : SinkTexts, likes : {"0"}, comment_time : {"1d"},
     is_reply : {TRUE}, crawled_at : {"now"}]

\* comment.get('is_reply', False)
IsReply(comment) ==
    IF "is_reply" \in DOMAIN comment THEN comment.is_reply ELSE FALSE

\* The lists extract_comments can return: a reply record follows, directly or
\* after other replies, the record of the item it was read under, whose
\* author it carries as parent_comment_username.
WellFormed(list) ==
    \A n \in DOMAIN list :
        IsReply(list[n]) =>
            \E m \in 1..(n - 1) :
                /\ ~IsReply(list[m])
                /\ \A h \in (m + 1)..(n - 1) : IsReply(list[h])
                /\ list[m].username = list[n].parent_comment_username

RecordLists ==
    {list \in UNION {[1..n -> TopRecords \cup ReplyRecords] : n \in 0..MaxRecords} :
        WellFormed(list)}

\* SELECT comment_id FROM comments WHERE video_id = %s AND username = %s AND
\* comment_text = %s (lines 255-258); comment_id is the position of the row.
\* (the variant finds no row)
ExistingNone(tbl, vid, comment) == {}
Existing(tbl, vid, comment) ==
    {id \in DOMAIN tbl :
        /\ tbl[id].video_id = vid
        /\ tbl[id].username = comment.username
        /\ tbl[id].comment_text = comment.comment_text}

\* fetchone(): the first row the query returns, taken as the oldest.
FetchOne(ids) == CHOOSE id \in ids : \A other \in ids : id <= other

\* lines 223-229: the parent's id, 0 for None.
ParentId(comment, username_to_id) ==
    IF IsReply(comment) /\ "parent_comment_username" \in DOMAIN comment
       /\ comment.parent_comment_username \in DOMAIN username_to_id
    THEN username_to_id[comment.parent_comment_username]
    ELSE 0

\* username_to_id[username] = comment_id
Remember(username_to_id, username, id) ==
    [u \in DOMAIN username_to_id \cup {username} |->
        IF u = username THEN id ELSE username_to_id[u]]

\* lines 221-295: the loop over the records, run for the first `budget`
\* records (an exception ends it there).  The row keeps the reply's
\* parent_comment_username beside the columns, for the claims.
RECURSIVE InsertFrom(_, _, _, _, _, _, _)
InsertFrom(list, n, budget, vid, tbl, username_to_id, counts) ==
    IF n > Len(list) \/ n > budget
    THEN [table |-> tbl, inserted_count |-> counts[1], skipped_count |-> counts[2]]
    ELSE LET comment == list[n]
             found == Existing(tbl, vid, comment)
         IN  IF found # {}
             THEN InsertFrom(list, n + 1, budget, vid, tbl,
                             IF ~IsReply(comment)
                             THEN Remember(username_to_id, comment.username,
                                           FetchOne(found))
                             ELSE username_to_id,
                             << counts[1], counts[2] + 1 >>)
             ELSE InsertFrom(list, n + 1, budget, vid,
                             Append(tbl,
                                 [video_id |-> vid,
                                  username |-> comment.username,
                                  comment_text |-> comment.comment_text,
                                  is_reply |-> IsReply(comment),
                                  parent_comment_id |-> ParentId(comment, username_to_id),
                                  parent_username |->
                                      IF IsReply(comment)
                                      THEN comment.parent_comment_username
                                      ELSE "none"]),
                             Remember(username_to_id, comment.username, Len(tbl) + 1),
                             << counts[1] + 1, counts[2] >>)

\* for comment in comments_data: the sinks iterate over the list and read the
\* records; the list is what it was.
\* (the variant consumes the list)
AfterConsuming(list) == << >>
AfterIteration(list) == list

\* fieldnames of the DictWriter (lines 1162-1163)
CsvFieldnames ==
    {"username", "comment_text", "likes", "comment_time", "replies_count",
     "crawled_at"}

\* writer.writerow(comment) raises ValueError for a key outside fieldnames
\* (extrasaction is left at 'raise').
RowAccepted(comment) == DOMAIN comment \subseteq CsvFieldnames

\* The rows save_to_csv writes before the first record the writer refuses.
RECURSIVE RowsWritten(_, _)
RowsWritten(list, n) ==
    IF n > Len(list) \/ ~RowAccepted(list[n]) THEN n - 1
    ELSE RowsWritten(list, n + 1)

\* PostgresConnector.insert_comments(video_id, comments_data), lines 204-304.
\* The connection commits each statement as it runs (ISOLATION_LEVEL_AUTOCOMMIT),
\* so the rows written before an exception stay.  `budget` is the number of
\* records handled before the exception, when one is raised; an exception
\* after the last record is one of conn.commit().  The two counts are what
\* line 300 logs; a call that raises logs none.
insert_comments(vid, budget, raised) ==
    /\ writes < MaxWrites
    /\ ~raised => budget = Len(records)
    /\ LET out == InsertFrom(records, 1, budget, vid, table, << >>, << 0, 0 >>)
       IN  /\ table' = out.table
           /\ inserted_count' = IF raised THEN 0 ELSE out.inserted_count
           /\ skipped_count' = IF raised THEN 0 ELSE out.skipped_count
    /\ video_id' = vid
    /\ insert_result' = IF raised THEN "false" ELSE "true"
    /\ writes' = writes + 1
    /\ records' = AfterIteration(records)
    /\ UNCHANGED << format, csv_result, csv_error, csv_rows, json_result, json_saved >>
    /\ UNCHANGED numberVars
    /\ UNCHANGED << dedupVars, extractVars >>
    /\ UNCHANGED << rendered, captcha >>
    /\ UNCHANGED loaderVars
    /\ UNCHANGED monitorVars

\* TikTokCommentCrawler.save_to_csv(comments_data), lines 1138-1175, called
\* when the run's format is csv (lines 1247-1248, crawler.py:483-484).  `io`
\* is a failure of the file system (mkdir, open, write).
save_to_csv(io) ==
    /\ format = "csv"
    /\ IF records = << >>
       THEN /\ csv_result' = "false"
            /\ csv_error' = "empty"
            /\ csv_rows' = 0
       ELSE IF io
       THEN /\ csv_result' = "false"
            /\ csv_error' = "IOError"
            /\ csv_rows' = 0
       ELSE /\ csv_rows' = RowsWritten(records, 1)
            /\ csv_result' = IF csv_rows' = Len(records) THEN "true" ELSE "false"
            /\ csv_error' = IF csv_rows' = Len(records) THEN "none" ELSE "ValueError"
    /\ records' = AfterIteration(records)
    /\ UNCHANGED << format, video_id, table, insert_result, inserted_count,
                    skipped_count, writes, json_result, json_saved >>
    /\ UNCHANGED numberVars
    /\ UNCHANGED << dedupVars, extractVars >>
    /\ UNCHANGED << rendered, captcha >>
    /\ UNCHANGED loaderVars
    /\ UNCHANGED monitorVars

\* TikTokCommentCrawler.save_to_json(comments_data), lines 1177-1208, called
\* when the run's format is not csv (lines 1249-1251, crawler.py:485-486).
save_to_json(io) ==
    /\ format = "json"
    /\ IF records = << >> \/ io
       THEN /\ json_result' = "false"
            /\ json_saved' = 0
       ELSE /\ json_result' = "true"
            /\ json_saved' = Len(records)
    /\ records' = AfterIteration(records)
    /\ UNCHANGED << format, video_id, table, insert_result, inserted_count,
                    skipped_count, writes, csv_result, csv_error,
                    csv_rows >>
    /\ UNCHANGED numberVars
    /\ UNCHANGED << dedupVars, extractVars >>
    /\ UNCHANGED << rendered, captcha >>
    /\ UNCHANGED loaderVars
    /\ UNCHANGED monitorVars

InitIdleSink ==
    /\ records = << >>
    /\ format = "csv"
    /\ video_id = "none"
    /\ table = << >>
    /\ insert_result = "none"
    /\ inserted_count = 0
    /\ skipped_count = 0
    /\ writes = 0
    /\ csv_result = "none"
    /\ csv_error = "none"
    /\ csv_rows = 0
    /\ json_result = "none"
    /\ json_saved = 0

\* ----------------------------------------------------------- number parsing

MaxLen == 4         \* longest count string drawn from Chars

\* Strings are sequences of one-character strings.
Chars == {"1", "4", ".", "K", "k", "M", "B", " "}
Unknown == << "U", "n", "k", "n", "o", "w", "n" >>
Infinity == << "i", "n", "f" >>
NumStrings == UNION {[1..n -> Chars] : n \in 0..MaxLen} \cup {Unknown, Infinity}

\* Integers beyond the machine word: little-endian sequences of limbs below
\* Base, without leading zero limbs; << >> is 0.
Base == 10000
MantissaBits == 53  \* helpers.py:164, float is an IEEE 754 double

RECURSIVE Big(_)
Big(n) == IF n = 0 THEN << >> ELSE << n % Base >> \o Big(n \div Base)

RECURSIVE Trim(_)
Trim(x) ==
    IF x = << >> \/ x[Len(x)] # 0 THEN x ELSE Trim(SubSeq(x, 1, Len(x) - 1))

RECURSIVE MulCarry(_, _, _, _)
MulCarry(x, i, c, carry) ==
    IF i > Len(x) THEN Big(carry)
    ELSE << (x[i] * c + carry) % Base >>
             \o MulCarry(x, i + 1, c, (x[i] * c + carry) \div Base)

MulSmall(x, c) == MulCarry(x, 1, c, 0)

RECURSIVE DivFrom(_, _, _, _, _)
DivFrom(x, i, c, rem, acc) ==
    IF i = 0 THEN [q |-> Trim(acc), r |-> rem]
    ELSE DivFrom(x, i - 1, c, (rem * Base + x[i]) % c,
                 << (rem * Base + x[i]) \div c >> \o acc)

DivSmall(x, c) == DivFrom(x, Len(x), c, 0, << >>)

RECURSIVE LessFrom(_, _, _)
LessFrom(x, y, i) ==
    IF i = 0 THEN FALSE
    ELSE IF x[i] # y[i] THEN x[i] < y[i]
    ELSE LessFrom(x, y, i - 1)

Less(x, y) ==
    \/ Len(x) < Len(y)
    \/ Len(x) = Len(y) /\ LessFrom(x, y, Len(x))

RECURSIVE AddOne(_)
AddOne(x) ==
    IF x = << >> THEN << 1 >>
    ELSE IF x[1] < Base - 1 THEN << x[1] + 1 >> \o Tail(x)
    ELSE << 0 >> \o AddOne(Tail(x))

IsOdd(x) == x # << >> /\ x[1] % 2 = 1

\* Powers of two are taken ChunkBits bits at a time where that many remain.
ChunkBits == 13
Chunk == 8192

RECURSIVE Pow2(_)
Pow2(n) ==
    IF n = 0 THEN << 1 >>
    ELSE IF n >= ChunkBits THEN MulSmall(Pow2(n - ChunkBits), Chunk)
    ELSE MulSmall(Pow2(n - 1), 2)

RECURSIVE Pow10(_)
Pow10(n) == IF n = 0 THEN 1 ELSE 10 * Pow10(n - 1)

RECURSIVE MulThousands(_, _)
MulThousands(x, t) == IF t = 0 THEN x ELSE MulThousands(MulSmall(x, 1000), t - 1)

\* A double other than zero is m * 2^e with 2^52 <= m <= 2^53.
MantissaLow == Pow2(MantissaBits - 1)
MantissaHigh == Pow2(MantissaBits)
ChunkBelowLow == Pow2(MantissaBits - 1 - ChunkBits)
ChunkAboveHigh == Pow2(MantissaBits + ChunkBits)

\* str.strip(), and the whitespace float() itself ignores
RECURSIVE Strip(_)
Strip(s) ==
    IF s = << >> THEN s
    ELSE IF s[1] = " " THEN Strip(Tail(s))
    ELSE IF s[Len(s)] = " " THEN Strip(SubSeq(s, 1, Len(s) - 1))
    ELSE s

DigitOf ==
    ("0" :> 0) @@ ("1" :> 1) @@ ("2" :> 2) @@ ("3" :> 3) @@ ("4" :> 4)
    @@ ("5" :> 5) @@ ("6" :> 6) @@ ("7" :> 7) @@ ("8" :> 8) @@ ("9" :> 9)

IsDigit(c) == c \in DOMAIN DigitOf

\* s.replace(c, '')
RECURSIVE Remove(_, _)
Remove(s, c) ==
    IF s = << >> THEN s
    ELSE IF s[1] = c THEN Remove(Tail(s), c)
    ELSE << s[1] >> \o Remove(Tail(s), c)

\* The decimal literals float() accepts among the strings of the model:
\* digits with at most one point and at least one digit, or "inf".
IsDecimal(s) ==
    /\ \A n \in DOMAIN s : IsDigit(s[n]) \/ s[n] = "."
    /\ Cardinality({n \in DOMAIN s : s[n] = "."}) <= 1
    /\ \E n \in DOMAIN s : IsDigit(s[n])

RECURSIVE DigitsValue(_)
DigitsValue(s) ==
    IF s = << >> THEN 0
    ELSE 10 * DigitsValue(SubSeq(s, 1, Len(s) - 1)) + DigitOf[s[Len(s)]]

\* The literal as a fraction num / 10^places.
Literal(s) ==
    [num |-> DigitsValue(Remove(s, ".")),
     places |-> IF \E n \in DOMAIN s : s[n] = "."
                THEN Len(s) - (CHOOSE n \in DOMAIN s : s[n] = ".")
                ELSE 0]

\* n * 2^k for the least k that brings n * 2^k / d up to 2^52.
RECURSIVE Scale(_, _, _)
Scale(n, d, k) ==
    IF ~Less(DivSmall(n, d).q, MantissaLow) THEN [n |-> n, k |-> k]
    ELSE IF Less(DivSmall(n, d).q, ChunkBelowLow)
    THEN Scale(MulSmall(n, Chunk), d, k + ChunkBits)
    ELSE Scale(MulSmall(n, 2), d, k + 1)

\* float(s) for a literal: the double nearest to num / 10^places, ties to the
\* even mantissa.
NearestDouble(num, places) ==
    IF num = 0 THEN [m |-> << >>, e |-> 0]
    ELSE LET d == Pow10(places)
             scaled == Scale(Big(num), d, 0)
             qr == DivSmall(scaled.n, d)
             up == 2 * qr.r > d \/ (2 * qr.r = d /\ IsOdd(qr.q))
         IN  [m |-> IF up THEN AddOne(qr.q) ELSE qr.q, e |-> 0 - scaled.k]

\* Halving down to 53 bits, with the bit shifted out last and whether any bit
\* before it was set.
RECURSIVE Shift(_, _, _, _)
Shift(q, t, round, sticky) ==
    IF Less(q, MantissaHigh) THEN [q |-> q, t |-> t, round |-> round, sticky |-> sticky]
    ELSE IF ~Less(q, ChunkAboveHigh)
    THEN Shift(DivSmall(q, Chunk).q, t + ChunkBits,
               2 * DivSmall(q, Chunk).r >= Chunk,
               sticky \/ round \/ (2 * DivSmall(q, Chunk).r) % Chunk # 0)
    ELSE Shift(DivSmall(q, 2).q, t + 1, IsOdd(q), sticky \/ round)

\* x * multiplier in double arithmetic: the exact product rounded to the
\* nearest double, ties to even.  The multiplier is 1000^thousands.
Times(x, thousands) ==
    IF x.m = << >> THEN x
    ELSE LET s == Shift(MulThousands(x.m, thousands), 0, FALSE, FALSE)
             up == s.round /\ (s.sticky \/ IsOdd(s.q))
         IN  [m |-> IF up THEN AddOne(s.q) ELSE s.q, e |-> x.e + s.t]

\* int(x): truncation.
RECURSIVE Truncate(_, _)
Truncate(m, e) ==
    IF m = << >> \/ e = 0 THEN m
    ELSE IF e >= ChunkBits THEN Truncate(MulSmall(m, Chunk), e - ChunkBits)
    ELSE IF e > 0 THEN Truncate(MulSmall(m, 2), e - 1)
    ELSE IF e <= 0 - ChunkBits THEN Truncate(DivSmall(m, Chunk).q, e + ChunkBits)
    ELSE Truncate(DivSmall(m, 2).q, e + 1)

NotCalled == [raised |-> "idle", value |-> << >>]
Returned(value) == [raised |-> "none", value |-> value]
Raised(exception) == [raised |-> exception, value |-> << >>]

\* int(float(s) * multiplier): ValueError for a string float() refuses,
\* OverflowError for int() of an infinity.
IntOfProduct(s, thousands) ==
    LET body == Strip(s)
    IN  IF body = Infinity THEN Raised("OverflowError")
        ELSE IF ~IsDecimal(body) THEN Raised("ValueError")
        ELSE LET lit == Literal(body)
                 x == Times(NearestDouble(lit.num, lit.places), thousands)
             IN  Returned(Truncate(x.m, x.e))

\* except (ValueError, TypeError): return 0
ZeroOnValueError(outcome) ==
    IF outcome.raised = "ValueError" THEN Returned(<< >>) ELSE outcome

\* multiplier as the number of factors 1000, by the last character
Suffix(c) ==
    IF c \in {"K", "k"} THEN 1
    ELSE IF c \in {"M", "m"} THEN 2
    ELSE IF c \in {"B", "b"} THEN 3
    ELSE 0

\* helpers.format_number, lines 134-166
format_number(s) ==
    IF s = << >> \/ s = Unknown THEN Returned(<< >>)
    ELSE LET stripped == Strip(s)
             thousands == IF stripped = << >> THEN 0
                          ELSE Suffix(stripped[Len(stripped)])
             body == IF thousands > 0
                     THEN SubSeq(stripped, 1, Len(stripped) - 1)
                     ELSE stripped
         IN  ZeroOnValueError(IntOfProduct(body, thousands))

\* insert_comments, lines 231-245: the likes of a record
parse_likes(s) ==
    IF \E n \in DOMAIN s : s[n] = "K"
    THEN ZeroOnValueError(IntOfProduct(Remove(s, "K"), 1))
    ELSE IF \E n \in DOMAIN s : s[n] = "M"
    THEN ZeroOnValueError(IntOfProduct(Remove(s, "M"), 2))
    ELSE IF s # << >> /\ \A n \in DOMAIN s : IsDigit(s[n])
    THEN Returned(Big(DigitsValue(s)))
    ELSE Returned(<< >>)

\* format_number(num_str)
FormatNumber ==
    /\ formatted = NotCalled
    /\ formatted' = format_number(num_str)
    /\ UNCHANGED << num_str, likes >>
    /\ UNCHANGED sinkVars
    /\ UNCHANGED << dedupVars, extractVars >>
    /\ UNCHANGED << rendered, captcha >>
    /\ UNCHANGED loaderVars
    /\ UNCHANGED monitorVars

\* the likes conversion of insert_comments on the same string
ParseLikes ==
    /\ likes = NotCalled
    /\ likes' = parse_likes(num_str)
    /\ UNCHANGED << num_str, formatted >>
    /\ UNCHANGED sinkVars
    /\ UNCHANGED << dedupVars, extractVars >>
    /\ UNCHANGED << rendered, captcha >>
    /\ UNCHANGED loaderVars
    /\ UNCHANGED monitorVars

InitIdleNumber ==
    /\ num_str = << >>
    /\ formatted = NotCalled
    /\ likes = NotCalled

InitIdleOutput == InitIdleSink /\ InitIdleNumber

InitIdleHarvest == InitIdleDedup /\ InitIdleExtract /\ InitIdleOutput

Init == InitLoader /\ InitMonitor /\ InitIdleHarvest

NextLoader == Call \/ RoundScroll \/ RoundReplies \/ RoundCheck \/ LoopExit \/ FeedChange

SpecLoader == Init /\ [][NextLoader]_vars
NextMonitor ==
    \/ start \/ stop \/ stop_return \/ pause \/ resume \/ mark_solved
    \/ wait_for_solution \/ wait_return \/ MonStep \/ CaptchaChange

InitIdleLoader ==
    /\ call_site = "main"
    /\ max_comments = 1
    /\ unlimited = FALSE
    /\ lpc = "call"
    /\ comments_loaded = 0
    /\ last_comments_count = 0
    /\ attempts = 0
    /\ rounds = 0
    /\ unchanged = 0
    /\ opened = 0
    /\ rendered = 0

\* The monitor and its callers alone, no load in progress.
InitWatch == InitIdleLoader /\ InitMonitor /\ InitIdleHarvest

SpecMonitor == InitWatch /\ [][NextMonitor]_vars

\* A load driven while a monitor watches the same session.
NextCrawl == NextLoader \/ start \/ MonStep \/ CaptchaChange

InitCrawl == Init /\ call_site = "main" /\ max_comments \in {0, 1} /\ rendered = 0

SpecCrawl == InitCrawl /\ [][NextCrawl]_vars

\* filter_duplicate_comments applied to a list, and to the list it returned.
NextDedup == Filter \/ FilterAgain

InitDedup ==
    /\ InitIdleLoader
    /\ InitMonitor
    /\ InitIdleExtract
    /\ InitIdleOutput
    /\ batch \in Batches
    /\ unique_comments = << >>
    /\ refiltered = << >>
    /\ dpc = "call"

SpecDedup == InitDedup /\ [][NextDedup]_vars

\* extract_comments called once on a loaded comment list.
NextExtract == ExtractCall \/ ExtractItem \/ ExtractReturn

InitExtract ==
    /\ InitMonitor
    /\ InitIdleDedup
    /\ InitIdleOutput
    /\ call_site = "main"
    /\ unlimited = FALSE
    /\ lpc = "done"
    /\ comments_loaded = 0
    /\ last_comments_count = 0
    /\ attempts = 0
    /\ rounds = 0
    /\ unchanged = 0
    /\ opened = 0
    /\ extract_site \in {"main", "page", "multi"}
    /\ max_comments \in (0..(MaxItems + 1)) \cup {DefaultMaxComments}
    /\ include_replies \in IF extract_site = "main" THEN {TRUE} ELSE BOOLEAN
    /\ dom \in Doms
    /\ rendered = Len(FindCommentItems(dom, 1))
    /\ xpc = "call"
    /\ comment_elements = << >>
    /\ cur = 1
    /\ comments_data = << >>
    /\ origin = << >>
    /\ failed = {}

SpecExtract == InitExtract /\ [][NextExtract]_vars

\* The sinks applied, in any order and any number of times, to one list.
NextSink ==
    \/ \E vid \in VideoIds, budget \in 0..MaxRecords, raised \in BOOLEAN :
           budget <= Len(records) /\ insert_comments(vid, budget, raised)
    \/ \E io \in BOOLEAN : save_to_csv(io)
    \/ \E io \in BOOLEAN : save_to_json(io)

InitSink ==
    /\ InitIdleLoader
    /\ InitMonitor
    /\ InitIdleDedup
    /\ InitIdleExtract
    /\ InitIdleNumber
    /\ records \in RecordLists
    /\ format \in {"csv", "json"}
    /\ video_id = "none"
    /\ table = << >>
    /\ insert_result = "none"
    /\ inserted_count = 0
    /\ skipped_count = 0
    /\ writes = 0
    /\ csv_result = "none"
    /\ csv_error = "none"
    /\ csv_rows = 0
    /\ json_result = "none"
    /\ json_saved = 0

SpecSink == InitSink /\ [][NextSink]_vars

\* The two conversions of a count string, each applied once.
NextNumber == FormatNumber \/ ParseLikes

InitNumber ==
    /\ InitIdleLoader
    /\ InitMonitor
    /\ InitIdleDedup
    /\ InitIdleExtract
    /\ InitIdleSink
    /\ num_str \in NumStrings
    /\ formatted = NotCalled
    /\ likes = NotCalled

SpecNumber == InitNumber /\ [][NextNumber]_vars

Next == NextLoader \/ NextMonitor \/ NextDedup \/ NextExtract \/ NextSink \/ NextNumber

Spec == Init /\ [][Next]_vars

\* ----------------------------------------------------------------- claims

\* A step of load_all_comments that scrolls, and one that clicks an affordance.
Scrolled == lpc = "loop" /\ lpc' = "settle"
Clicked == lpc = "settle" /\ lpc' = "check" /\ opened' > 0

\* The condition under which the loop has reached one of its stop rules.
StopReached == comments_loaded >= max_comments \/ attempts >= max_attempts

\* The positions of _monitor_loop inside a detection episode.
EpisodePcs == {"callback", "waittest", "waitpoll", "solved", "stopped"}

\* C1: while the monitor's is_paused flag is true, load_all_comments takes no
\* step that scrolls the page and none that clicks on it.
C1_NoScrollWhilePaused == [][is_paused => ~(Scrolled \/ Clicked)]_vars

\* C2 as stated: with max_comments above every count the feed can show, the
\* load runs at most max_attempts rounds in all.
C2_WithinMaxAttemptsRounds == max_comments > MaxFeed => rounds <= max_attempts

\* C2 as amended: with max_comments above every count the feed can show, no
\* more than max_attempts rounds follow the last round whose count differed
\* from the count of the round before (0 before the first round), and after
\* the max_attempts-th such round the load has ended.
C2_StallBudget ==
    max_comments > MaxFeed =>
        /\ unchanged <= max_attempts
        /\ (unchanged = max_attempts /\ lpc \notin {"settle", "check"})
               => lpc \in {"done", "failed"}

\* C2 witness: a feed that stays below max_comments ends the load after 21
\* rounds, the last 20 of them without a change of the count.
C2_Witness ==
    /\ lpc = "done"
    /\ max_comments > MaxFeed
    /\ unchanged = max_attempts
    /\ rounds = max_attempts + 1
    /\ comments_loaded = MaxFeed

\* C3 as stated: the loop has ended only with the count at max_comments or
\* the no-improvement counter above the budget of 20.
C3_StopsOnlyPastBudget ==
    lpc = "done" => (comments_loaded >= max_comments \/ attempts > max_attempts)

\* C3 as amended: the loop ends only when the count has reached max_comments
\* or the no-improvement counter has reached 20, a round begins only when
\* neither holds, and the loop goes on to a next round only when neither holds.
C3_StopRule ==
    [][ /\ (lpc # "done" /\ lpc' = "done") => StopReached'
        /\ Scrolled => ~StopReached
        /\ (lpc = "check" /\ lpc' = "loop") => ~StopReached' ]_vars

\* C3 witness: the loop has ended below max_comments with the counter at 20.
C3_Witness ==
    lpc = "done" /\ attempts = max_attempts /\ comments_loaded < max_comments

\* C4: a round resets the no-improvement counter only when the count exceeds
\* the highest count tracked so far and increments it otherwise, and the
\* tracked highest count never decreases.
C4_ResetOnlyOnGrowth ==
    [][ Scrolled =>
          /\ attempts' = IF comments_loaded' > last_comments_count
                         THEN 0 ELSE attempts + 1
          /\ last_comments_count' >= last_comments_count ]_vars

\* C5: a call in unbounded mode (unlimited=True with max_idle_time=T) is
\* carried out by the loader, which ends it by its idle rule; the call does
\* not end before the first round in the refusal of its keywords.
C5_UnboundedModeLoads == (call_site = "page" /\ unlimited) => lpc # "TypeError"

\* C6: from the detection of a displayed interstitial until the interstitial
\* is no longer displayed or mark_solved() is called, is_paused is true.
C6_PausedWhileDetected == detected => is_paused

\* C7: wait_for_solution returns True only when the event was set by a
\* resolution: the interstitial observed gone, or mark_solved().
C7_TrueOnlyWhenResolved ==
    wait_result = "true" => wait_cause \in {"mark", "gone"}

\* C8: mark_solved() called while a detected interstitial is still displayed
\* leaves is_paused false.
C8_MarkSolvedForcesIdle ==
    [][(mark_solved /\ detected /\ captcha = "shown") => ~is_paused']_vars

\* C9: the callback is invoked at most once for one appearance of the
\* interstitial.
C9_NotifiedOncePerEpisode == notified <= 1

\* C10: whenever a monitor thread leaves a detection episode, by the end of
\* the wait or by an exception, is_paused is false afterwards, so that the
\* later ticks poll again.
C10_EpisodeEndClearsPause ==
    [][\A t \in Threads :
          (mpc[t] \in EpisodePcs /\ mpc'[t] \notin EpisodePcs) => ~is_paused']_vars

\* A step of _monitor_loop in which thread t queries the browser session:
\* find_element of the tick, is_displayed of the wait test, find_element of
\* the wait loop.
Queried(t) ==
    \/ mpc[t] = "poll" /\ ~is_paused /\ mpc'[t] # "poll"
    \/ mpc[t] = "waittest" /\ is_running /\ mpc'[t] # "waittest"
    \/ mpc[t] = "waitpoll" /\ mpc'[t] # "waitpoll"

\* C11: once stop() has returned (and until a later start()), no monitor
\* thread is alive and none issues a query against the browser session.
C11_NoQueryAfterStop ==
    [][(~is_running /\ ~joining) =>
          \A t \in Threads : ~Alive(t) /\ ~Queried(t)]_vars

\* The identity of a record for deduplication: its author and its text.
Identity(comment) == << comment.username, comment.comment_text >>

\* C12: filter_duplicate_comments returns exactly one record for each distinct
\* (username, comment_text) pair of its input, so the length of the list
\* returned is the number of distinct pairs.
C12_OneRecordPerPair ==
    dpc # "call" =>
        /\ \A m \in DOMAIN batch :
              Cardinality({n \in DOMAIN unique_comments :
                  Identity(unique_comments[n]) = Identity(batch[m])}) = 1
        /\ Len(unique_comments) =
              Cardinality({Identity(batch[m]) : m \in DOMAIN batch})

\* C13: filter_duplicate_comments applied to the list it returned returns
\* that list again.
C13_Idempotent == dpc = "refiltered" => refiltered = unique_comments

\* C13 witness: the second application has run on a list of two records or
\* more from which the first application had removed a duplicate.
C13_Witness ==
    /\ dpc = "refiltered"
    /\ Len(unique_comments) < Len(batch)
    /\ Len(unique_comments) > 1

\* C14: the list returned is a subsequence of the input in the input's order;
\* each record of it is the first record of its identity in the input,
\* unchanged; no identity occurs in it twice; a non-empty input gives a
\* non-empty list; and the input list is never changed.
C14_FirstSeenSubsequence ==
    /\ [](dpc # "call" =>
            /\ \E f \in [DOMAIN unique_comments -> DOMAIN batch] :
                  /\ \A a, b \in DOMAIN unique_comments : a < b => f[a] < f[b]
                  /\ \A a \in DOMAIN unique_comments :
                        /\ unique_comments[a] = batch[f[a]]
                        /\ \A h \in 1..(f[a] - 1) :
                              Identity(batch[h]) # Identity(batch[f[a]])
            /\ \A a, b \in DOMAIN unique_comments :
                  a # b => Identity(unique_comments[a]) # Identity(unique_comments[b])
            /\ batch # << >> => unique_comments # << >>)
    /\ [][batch' = batch]_vars

\* C14 witness: the input held two records of one identity with different
\* like counts, and the list returned is shorter than the input.
C14_Witness ==
    /\ dpc = "filtered"
    /\ Len(unique_comments) < Len(batch)
    /\ \E a, b \in DOMAIN batch :
          /\ a < b
          /\ Identity(batch[a]) = Identity(batch[b])
          /\ batch[a].likes # batch[b].likes

\* The rendered replies of the list: every reply is whole and inside its
\* item's container.
AllRepliesRendered ==
    \A k \in DOMAIN dom :
        /\ dom[k].replies # << >> => dom[k].expanded
        /\ \A j \in DOMAIN dom[k].replies : dom[k].replies[j] = WholeReply

RenderedReplies ==
    UNION {{[item |-> k, reply |-> j] : j \in DOMAIN dom[k].replies} :
              k \in {h \in DOMAIN dom : dom[h].expanded}}

\* C15: for a list of T items and R rendered replies, with max_comments >= T
\* and include_replies true, a call that meets no exception returns T + R
\* records: one read from each item and one from each reply.
C15_OnePerItemAndReply ==
    ( /\ xpc = "done"
      /\ failed = {}
      /\ include_replies
      /\ max_comments >= Len(dom)
      /\ AllRepliesRendered ) =>
        /\ Len(comments_data) = Len(dom) + Cardinality(RenderedReplies)
        /\ \A k \in DOMAIN dom :
              Cardinality({n \in DOMAIN origin :
                  origin[n].item = k /\ origin[n].reply = 0}) = 1
        /\ \A el \in RenderedReplies :
              Cardinality({n \in DOMAIN origin :
                  origin[n].item = el.item /\ origin[n].reply = el.reply}) = 1

\* The order C16 describes: the first n items, each followed by the replies
\* of it that yield a record.
RECURSIVE ItemsThenReplies(_, _)
ItemsThenReplies(k, n) ==
    IF k > n THEN << >>
    ELSE << << k, 0 >> >> \o
         (IF include_replies
          THEN [h \in 1..Len(KeptReplies(dom[k])) |-> << k, KeptReplies(dom[k])[h] >>]
          ELSE << >>) \o
         ItemsThenReplies(k + 1, n)

\* C16: a call that meets no exception returns the records of the first
\* min(number of items, max_comments) items, in document order, each item's
\* record directly followed by the records of its replies in document order.
C16_FirstItemsInOrder ==
    (xpc = "done" /\ failed = {}) =>
        [n \in DOMAIN origin |-> << origin[n].item, origin[n].reply >>]
            = ItemsThenReplies(1, Min(Len(dom), max_comments))

\* The author extract_comments reads from item k.
ItemAuthor(k) ==
    IF "username" \in dom[k].present THEN AuthorNames[k] ELSE "Unknown"

\* C17: a record carries the key is_reply exactly when it was built by the
\* reply branch; there is_reply is true and parent_comment_username is the
\* author read from the item under which the reply is rendered.
C17_ReplyNamesItsParent ==
    \A n \in DOMAIN comments_data :
        /\ ("is_reply" \in DOMAIN comments_data[n]) <=> (origin[n].via = "reply")
        /\ origin[n].via = "reply" =>
              /\ comments_data[n].is_reply = TRUE
              /\ comments_data[n].parent_comment_username = ItemAuthor(origin[n].item)

\* C17 witness: the list returned holds replies of two items with different
\* authors.
C17_Witness ==
    /\ xpc = "done"
    /\ \E n, m \in DOMAIN comments_data :
          /\ origin[n].via = "reply"
          /\ origin[m].via = "reply"
          /\ comments_data[n].parent_comment_username = "u1"
          /\ comments_data[m].parent_comment_username = "u2"

C19_SkipUnknownHonoured ==
    "skip_unknown" \in ExtractKeywords(extract_site) =>
        /\ xpc # "TypeError"
        /\ \A n \in DOMAIN comments_data : comments_data[n].username # "Unknown"

\* C20: when the call has returned, every container within the processing
\* cap whose extraction did not raise has its record in the list, those
\* before a failed container and those after it, in the order of the
\* containers.
C20_FailureSkipsOneContainer ==
    xpc = "done" =>
        /\ \A p \in 1..comments_to_process :
              \/ [at |-> p, part |-> "item"] \in failed
              \/ \E n \in DOMAIN origin : origin[n].at = p /\ origin[n].via = "item"
        /\ \A n, m \in DOMAIN origin : n < m => origin[n].at <= origin[m].at

\* C20 witness: the call has returned, one container raised, and the list
\* holds the record of a container before it and of one after it.
C20_Witness ==
    /\ xpc = "done"
    /\ \E p \in 1..comments_to_process :
          /\ [at |-> p, part |-> "item"] \in failed
          /\ \E n, m \in DOMAIN origin : origin[n].at < p /\ origin[m].at > p

\* C24: a round of load_all_comments that opens at least one 'view replies'
\* affordance leaves the no-improvement counter at 0.
C24_OpeningResetsCounter == [][Clicked => attempts' = 0]_vars

\* The positions of a round after its scroll (lines 841-847).
ScrolledThisRound == lpc \in {"settle", "check"}

\* C25: a round that has opened at least one reply affordance has performed
\* no scroll, and no round opens more than 5 affordances.
C25_OpeningSkipsScroll ==
    /\ opened > 0 => ~ScrolledThisRound
    /\ opened <= ReplyBatch

\* C26: when the call has returned without an exception, with include_replies
\* true, every reply under an item whose record was read has exactly one
\* record built by the reply branch, whichever elements the reply holds.
C26_EveryReplyYieldsRecord ==
    (xpc = "done" /\ failed = {} /\ include_replies) =>
        \A m \in DOMAIN origin :
            (origin[m].via = "item" /\ origin[m].reply = 0) =>
                \A j \in DOMAIN dom[origin[m].item].replies :
                    Cardinality({n \in DOMAIN origin :
                        /\ origin[n].via = "reply"
                        /\ origin[n].item = origin[m].item
                        /\ origin[n].reply = j}) = 1

\* C29: at most one thread runs _monitor_loop at any time.
C29_OneLoopAtATime == Cardinality({t \in Threads : Alive(t)}) <= 1

\* The rows of one call's video that carry the triple of a record.
SameTriple(a, b) ==
    /\ table'[a].video_id = table'[b].video_id
    /\ table'[a].username = table'[b].username
    /\ table'[a].comment_text = table'[b].comment_text

\* Every record of the list has a row under the video.
Stored(vid) == \A n \in DOMAIN records : Existing(table, vid, records[n]) # {}

\* C21: after any sequence of insert_comments calls no two rows share
\* (video_id, username, comment_text), and a call for a video the list is
\* already stored under inserts no row: every record it handles is skipped.
C21_IdempotentPerVideo ==
    [][/\ \A a, b \in DOMAIN table' : a # b => ~SameTriple(a, b)
       /\ (writes' # writes /\ Stored(video_id')) =>
              /\ table' = table
              /\ inserted_count' = 0
              /\ insert_result' = "true" => skipped_count' = Len(records)]_vars

C21_Witness ==
    /\ writes >= 2
    /\ Stored(video_id)
    /\ insert_result = "true"
    /\ Len(records) >= 2
    /\ inserted_count = 0
    /\ skipped_count = Len(records)

\* C22: a write that returns False leaves the list of records as it was.
C22_FailedWriteKeepsList ==
    [][(\/ insert_result' = "false"
        \/ csv_result' = "false"
        \/ json_result' = "false") => records' = records]_vars

C22_Witness ==
    /\ records # << >>
    /\ insert_result = "false"
    /\ csv_result = "false" \/ json_result = "false"
    /\ table # << >>

\* The integer a count string denotes: the decimal before the suffix times
\* the suffix's power of ten, 0 for a string that is no such count.
Denoted(s) ==
    LET stripped == Strip(s)
        thousands == IF stripped = << >> THEN 0
                     ELSE Suffix(stripped[Len(stripped)])
        body == Strip(IF thousands > 0
                      THEN SubSeq(stripped, 1, Len(stripped) - 1)
                      ELSE stripped)
    IN  IF IsDecimal(body)
        THEN DivSmall(MulThousands(Big(Literal(body).num), thousands),
                      Pow10(Literal(body).places)).q
        ELSE << >>

\* C23: format_number returns the integer the string denotes, and 0, without
\* raising, for a string that cannot be parsed.
C23_FormatNumberDenotes ==
    formatted # NotCalled => formatted = Returned(Denoted(num_str))

\* C27: the parent_comment_id of a reply row is NULL or the id of a top-level
\* row of the same video written by the reply's parent_comment_username.
C27_ParentIsTopLevel ==
    \A id \in DOMAIN table :
        (table[id].is_reply /\ table[id].parent_comment_id # 0) =>
            /\ table[id].parent_comment_id \in DOMAIN table
            /\ ~table[table[id].parent_comment_id].is_reply
            /\ table[table[id].parent_comment_id].video_id = table[id].video_id
            /\ table[table[id].parent_comment_id].username = table[id].parent_username

\* C28: save_to_csv, the file system permitting, returns True for every
\* non-empty list and writes one row per record.
C28_CsvAcceptsEveryBatch ==
    (csv_result # "none" /\ csv_error \notin {"empty", "IOError"}) =>
        /\ csv_result = "true"
        /\ csv_rows = Len(records)

\* C30: the likes conversion of insert_comments gives what format_number
\* gives for the same string.
C30_LikesAsFormatNumber ==
    (formatted # NotCalled /\ likes # NotCalled) => likes = formatted
====
